---- MODULE Spec2Model ----
(***************************************************************************)
(* Lemon, a terminal file browser (src/Lemon.py): the lazily loaded file   *)
(* tree, refresh, expand/collapse, open and the confirmed delete, run      *)
(* against a filesystem that other processes may change at any time.       *)
(*                                                                         *)
(* A tree node is identified by the path it was created for, written as a  *)
(* sequence of integers: <<>> is the Tree widget's own root node (it has   *)
(* no data), <<0>> and <<5>> are the anchors, <<0, n>> the entry named n   *)
(* of anchor <<0>>, and so on.  A placeholder child of node p is           *)
(* p \o <<-1>> (permission error) or p \o <<-2>> (load error);             *)
(* placeholders carry no data.                                             *)
(*                                                                         *)
(* Spec is the browser under every user intent and external change of the  *)
(* entries; SpecLoad loads every filesystem in every listing order;        *)
(* SpecFault loads while stat and listing fail; SpecLive is Spec with a    *)
(* user who answers the confirmation dialog.                               *)
(***************************************************************************)
EXTENDS Integers, Sequences, FiniteSets, TLC

VARIABLES
    present,      \* filesystem: the set of paths that exist
    order,        \* filesystem: the order in which a directory lists names
    fault,        \* filesystem: <<kind, path>>, the path whose stat or listing fails
    children,     \* tree: node -> the sequence of its child nodes
    expanded,     \* tree: the nodes that are expanded
    data_is_dir,  \* tree: the nodes tagged data_is_dir = True
    cursor,       \* Tree.cursor_node: a node, or NoNode
    stale,        \* 0: cursor_node is attached; 1: it was detached by a reload
                  \* of its parent; 2: its parent object is detached as well
    pending,      \* Tree.NodeExpanded messages posted and not yet handled
    loaded,       \* history: the nodes load_children was called on since they
                  \* were created
    dialog,       \* the path DeleteConfirmScreen shows, or NoNode when closed
    app,          \* "running", or "crashed" after an exception left a handler
    extCount,     \* how many external filesystem changes have happened
    last          \* what the most recent step did: handler, notification, OS call

vars == <<present, order, fault, children, expanded, data_is_dir, cursor, stale,
          pending, loaded, dialog, app, extCount, last>>

----------------------------------------------------------------------------
(* Bounds of the model. *)

\* External filesystem changes (other processes) in one run.
MaxExternal == 2

\* NodeExpanded messages that may wait in the message queue.
MaxPending == 1

----------------------------------------------------------------------------
(* Names and paths. *)

\* The entry names, as code points: "bravo", "Alpha.txt", "charlie", "alpha.txt".
NameChars ==
    << <<98, 114, 97, 118, 111>>,
       <<65, 108, 112, 104, 97, 46, 116, 120, 116>>,
       <<99, 104, 97, 114, 108, 105, 101>>,
       <<97, 108, 112, 104, 97, 46, 116, 120, 116>> >>

Names == DOMAIN NameChars

\* The Tree widget's root node ("文件系统"); it has no data and no data_is_dir.
Root == <<>>

\* No node: cursor_node is None; no dialog is open.
NoNode == <<-9>>

\* get_root_paths: the list of the anchors that exist, here two drives.
\* <<0>> holds the entries below; <<5>> is an empty drive.
get_root_paths == << <<0>>, <<5>> >>

Anchors == { get_root_paths[i] : i \in DOMAIN get_root_paths }

\* The directories and files that may exist: bravo/, charlie/, Alpha.txt and
\* alpha.txt in the anchor, and Alpha.txt in bravo/.
DirPaths == Anchors \cup { <<0, 1>>, <<0, 3>> }

FilePaths == { <<0, 2>>, <<0, 4>>, <<0, 1, 2>> }

Paths == DirPaths \cup FilePaths

\* Path.parent and Path.name
ParentOf(p) == SubSeq(p, 1, Len(p) - 1)

NameOf(p) == p[Len(p)]

IsPrefix(a, b) == Len(a) <= Len(b) /\ SubSeq(b, 1, Len(a)) = a

StrictPrefix(a, b) == Len(a) < Len(b) /\ IsPrefix(a, b)

\* The nodes that can hold children, and every node the tree can hold.
Containers == {Root} \cup DirPaths

Placeholders == { p \o <<m>> : p \in DirPaths, m \in {-1, -2} }

Nodes == {Root} \cup Paths \cup Placeholders

\* node.data: the path the node was created with; None for the root and for
\* a placeholder.
HasData(n) == n \in Paths

\* node.parent: None for the root.
HasParent(n) == n # Root

\* hasattr(node, "data_is_dir") and node.data_is_dir and node.data
IsDirNode(tagged, n) == n \in tagged /\ HasData(n)

----------------------------------------------------------------------------
(* The filesystem. *)

\* A fault <<kind, p>>: the stat of p fails with EACCES ("stat_perm") or
\* EIO ("stat_io"); the listing of directory p fails ("list_perm",
\* "list_io"); or the stat of entry p fails only from the moment the for
\* loop of load_children checks it, the sort before it having read the key
\* of p without error ("entry_perm", "entry_io").
NoFault == <<"none", Root>>

\* os.stat of p with the filesystem in state (pres, flt):
\* "dir", "file", "ENOENT", "EACCES" or "EIO".
Stat(pres, flt, p) ==
    IF flt = <<"stat_perm", p>> THEN "EACCES"
    ELSE IF flt = <<"stat_io", p>> THEN "EIO"
    ELSE IF p \notin pres THEN "ENOENT"
    ELSE IF p \in DirPaths THEN "dir" ELSE "file"

\* Path.exists, Path.is_dir, Path.is_file: False for a missing path.  These
\* are used where the stat succeeds; StatRaises says when it does not.
Exists(pres, flt, p) == Stat(pres, flt, p) \in {"dir", "file"}

IsDir(pres, flt, p) == Stat(pres, flt, p) = "dir"

IsFile(pres, flt, p) == Stat(pres, flt, p) = "file"

\* The exception a stat of p raises: "none", "PermissionError" or "OSError".
StatRaises(pres, flt, p) ==
    CASE Stat(pres, flt, p) = "EACCES" -> "PermissionError"
      [] Stat(pres, flt, p) = "EIO" -> "OSError"
      [] OTHER -> "none"

\* Path.iterdir of directory p: its entries, in the filesystem's order.
RECURSIVE Listing(_, _, _, _)
Listing(pres, ord, p, i) ==
    IF i > Len(ord) THEN <<>>
    ELSE (IF p \o <<ord[i]>> \in pres THEN << p \o <<ord[i]>> >> ELSE <<>>)
         \o Listing(pres, ord, p, i + 1)

iterdir(pres, ord, p) == Listing(pres, ord, p, 1)

\* The exception iterdir of p raises.
ListRaises(flt, p) ==
    CASE flt = <<"list_perm", p>> -> "PermissionError"
      [] flt = <<"list_io", p>> -> "OSError"
      [] OTHER -> "none"

\* The exception entry.is_dir() raises for entry p inside the for loop of
\* load_children.
EntryRaises(pres, flt, p) ==
    CASE flt = <<"entry_perm", p>> -> "PermissionError"
      [] flt = <<"entry_io", p>> -> "OSError"
      [] OTHER -> StatRaises(pres, flt, p)

\* The paths at or below p.
Subtree(p) == { q \in Paths : IsPrefix(p, q) }

----------------------------------------------------------------------------
(* The sort of load_children:                                              *)
(*   sorted(path.iterdir(), key=lambda x: (not x.is_dir(), x.name.lower())) *)

\* str.lower on one code point
LowerChar(c) == IF c >= 65 /\ c <= 90 THEN c + 32 ELSE c

lower(s) == [i \in DOMAIN s |-> LowerChar(s[i])]

\* s < t for strings: the first differing code point decides, a proper
\* prefix is smaller.
RECURSIVE StrLess(_, _)
StrLess(s, t) ==
    IF t = <<>> THEN FALSE
    ELSE IF s = <<>> THEN TRUE
    ELSE IF Head(s) # Head(t) THEN Head(s) < Head(t)
    ELSE StrLess(Tail(s), Tail(t))

\* The sort key of entry x: <<not x.is_dir(), x.name.lower()>>
SortKey(pres, flt, x) == << ~IsDir(pres, flt, x), lower(NameChars[NameOf(x)]) >>

\* k1 < k2 for keys: False sorts before True, then the names.
KeyLess(k1, k2) ==
    IF k1[1] # k2[1] THEN k2[1] ELSE StrLess(k1[2], k2[2])

\* sorted() is stable: an entry goes after every entry whose key is not
\* greater than its own.
RECURSIVE InsertSorted(_, _, _, _)
InsertSorted(pres, flt, s, x) ==
    IF s = <<>> THEN <<x>>
    ELSE IF KeyLess(SortKey(pres, flt, x), SortKey(pres, flt, Head(s)))
         THEN <<x>> \o s
         ELSE <<Head(s)>> \o InsertSorted(pres, flt, Tail(s), x)

RECURSIVE SortFrom(_, _, _, _)
SortFrom(pres, flt, done, rest) ==
    IF rest = <<>> THEN done
    ELSE SortFrom(pres, flt, InsertSorted(pres, flt, done, Head(rest)), Tail(rest))

sorted(pres, flt, entries) == SortFrom(pres, flt, <<>>, entries)

----------------------------------------------------------------------------
(* The tree.  A tree value t is a record of the tree's fields that a       *)
(* handler changes: children, expanded, data_is_dir, the queue of          *)
(* NodeExpanded messages (pending) and the staleness of cursor_node.       *)

Tree == [children |-> children, expanded |-> expanded, data_is_dir |-> data_is_dir,
         pending |-> pending, stale |-> stale, loaded |-> loaded]

\* The nodes attached to the tree: reachable from the root.
RECURSIVE Below(_, _)
Below(kids, n) ==
    IF n \notin DOMAIN kids THEN {n}
    ELSE {n} \cup UNION { Below(kids, kids[n][i]) : i \in DOMAIN kids[n] }

Attached(kids) == Below(kids, Root)

SeqRange(s) == { s[i] : i \in DOMAIN s }

RECURSIVE SeqFilterOut(_, _)
SeqFilterOut(s, n) ==
    IF s = <<>> THEN <<>>
    ELSE (IF StrictPrefix(n, Head(s)) THEN <<>> ELSE <<Head(s)>>)
         \o SeqFilterOut(Tail(s), n)

\* The staleness of cursor_node after the children of node n are detached:
\* cursor_node keeps pointing at the detached object.
StaleAfter(st, n) ==
    IF cursor = NoNode THEN st
    ELSE IF st = 0 /\ StrictPrefix(n, cursor)
         THEN (IF ParentOf(cursor) = n THEN 1 ELSE 2)
    ELSE IF st = 1 /\ StrictPrefix(n, ParentOf(cursor)) THEN 2
    ELSE st

\* node.remove_children(): every descendant of the node is detached; a
\* message for a detached node no longer changes the visible tree.
\* A variant that empties the node's own children list and keeps what the
\* tree holds about the nodes below (an incremental patch).
remove_children_shallow(t, n) ==
    [ children    |-> [m \in DOMAIN t.children |->
                          IF m = n THEN <<>> ELSE t.children[m]],
      expanded    |-> t.expanded,
      data_is_dir |-> t.data_is_dir,
      pending     |-> t.pending,
      stale       |-> StaleAfter(t.stale, n),
      loaded      |-> t.loaded ]

remove_children(t, n) ==
    [ children    |-> [m \in DOMAIN t.children |->
                          IF IsPrefix(n, m) THEN <<>> ELSE t.children[m]],
      expanded    |-> { m \in t.expanded : ~StrictPrefix(n, m) },
      data_is_dir |-> { m \in t.data_is_dir : ~StrictPrefix(n, m) },
      pending     |-> SeqFilterOut(t.pending, n),
      stale       |-> StaleAfter(t.stale, n),
      loaded      |-> { m \in t.loaded : ~StrictPrefix(n, m) } ]

\* The first exception that evaluating the sort key of the entries raises.
RECURSIVE FirstStatRaise(_, _, _)
FirstStatRaise(pres, flt, entries) ==
    IF entries = <<>> THEN "none"
    ELSE IF StatRaises(pres, flt, Head(entries)) # "none"
         THEN StatRaises(pres, flt, Head(entries))
         ELSE FirstStatRaise(pres, flt, Tail(entries))

\* The for loop of load_children over the sorted entries: a directory entry
\* becomes a child tagged data_is_dir, any other entry a file child; an
\* entry whose check raises PermissionError is skipped; another exception
\* ends the loop and leaves the children added so far.
RECURSIVE AddEntries(_, _, _, _, _)
AddEntries(t, pres, flt, n, entries) ==
    IF entries = <<>> THEN [t |-> t, exc |-> "none"]
    ELSE LET e == Head(entries)
         IN  CASE EntryRaises(pres, flt, e) = "PermissionError" ->
                    AddEntries(t, pres, flt, n, Tail(entries))
               [] EntryRaises(pres, flt, e) = "OSError" ->
                    [t |-> t, exc |-> "OSError"]
               [] OTHER ->
                    AddEntries(
                      [t EXCEPT !.children[n] = Append(@, e),
                                !.data_is_dir =
                                   IF IsDir(pres, flt, e) /\ ~IsFile(pres, flt, e)
                                   THEN @ \cup {e} ELSE @],
                      pres, flt, n, Tail(entries))

\* node.add(label="[权限不足]") and node.add(label="[加载错误: ...]")
AddPlaceholder(t, n, exc) ==
    [t EXCEPT !.children[n] =
        Append(@, n \o << IF exc = "PermissionError" THEN -1 ELSE -2 >>)]

\* load_children(node, node.data) on an attached node n, with the
\* filesystem holding the paths pres.  The result is the tree and the
\* exception that leaves load_children ("none" when it returns).
\* A variant that forgets node.remove_children() (a plausible slip).
load_children_keep(t, pres, n) ==
    [t |-> AddEntries(t, pres, fault, n, sorted(pres, fault, iterdir(pres, order, n))).t,
     exc |-> "none"]

\* A variant that adds the entries as iterdir lists them, unsorted.
load_children_unsorted(t, pres, n) ==
    [t |-> AddEntries(remove_children(t, n), pres, fault, n, iterdir(pres, order, n)).t,
     exc |-> "none"]

load_children(t, pres, n) ==
    LET t1 == [remove_children(t, n) EXCEPT !.loaded = @ \cup {n}]
    IN  IF ~HasData(n) THEN [t |-> t1, exc |-> "none"]
        ELSE IF StatRaises(pres, fault, n) # "none"
             THEN [t |-> t1, exc |-> StatRaises(pres, fault, n)]
        ELSE IF ~IsDir(pres, fault, n) THEN [t |-> t1, exc |-> "none"]
        ELSE IF ListRaises(fault, n) # "none"
             THEN [t |-> AddPlaceholder(t1, n, ListRaises(fault, n)), exc |-> "none"]
        ELSE LET entries == iterdir(pres, order, n)
                 keyExc == FirstStatRaise(pres, fault, entries)
             IN  IF keyExc # "none"
                 THEN [t |-> AddPlaceholder(t1, n, keyExc), exc |-> "none"]
                 ELSE LET r == AddEntries(t1, pres, fault, n,
                                          sorted(pres, fault, entries))
                      IN  IF r.exc = "none" THEN r
                          ELSE [t |-> AddPlaceholder(r.t, n, r.exc), exc |-> "none"]

\* load_children as a handler calls it on node n whose own staleness is
\* det (0: attached): a load of a detached node changes nothing visible, but
\* raises as the attached one would.
\* A variant that keeps the children the node has instead of loading them.
LoadNode_cached(t, pres, n, det) == [t |-> t, exc |-> "none"]

LoadNode(t, pres, n, det) ==
    IF det = 0 THEN load_children(t, pres, n)
    ELSE [t |-> t,
          exc |-> IF HasData(n) THEN StatRaises(pres, fault, n) ELSE "none"]

\* node.expand(): the node is expanded and a NodeExpanded message is posted.
expand(t, n, det) ==
    IF det = 0
    THEN [t EXCEPT !.expanded = @ \cup {n}, !.pending = Append(@, n)]
    ELSE t

\* node.collapse()
collapse(t, n) == [t EXCEPT !.expanded = @ \ {n}]

----------------------------------------------------------------------------
(* What a step reports in `last`. *)

\* op: the handler or event; note: the notification self.notify showed
\* ("none" without one); call: the OS call made ("none", "unlink",
\* "rmtree", "open_file") and arg, the path it was made on.
Did(op, note, call, arg) == [op |-> op, note |-> note, call |-> call, arg |-> arg]

\* The notifications:
\*   "refreshed_dir"     已刷新目录        "refreshed_parent"  已刷新父目录
\*   "refreshed_all"     已刷新文件系统    "no_file_selected"  未选中任何文件
\*   "opened"            已打开            "open_failed"       打开失败
\*   "select_a_file"     请先选中一个文件  "nothing_selected"  未选中任何文件/目录
\*   "invalid_selection" 选中项无效或不存在 "delete_cancelled"  已取消删除
\*   "deleted"           已删除            "permission_denied" 权限不足，无法删除
\*   "not_found"         文件/目录不存在   "delete_failed"     删除失败
ErrorNotes == {"permission_denied", "not_found", "delete_failed"}

\* The notification of the except clause that catches exception exc in
\* handle_delete_confirm.
ExceptNote(exc) ==
    CASE exc = "PermissionError" -> "permission_denied"
      [] exc = "FileNotFoundError" -> "not_found"
      [] OTHER -> "delete_failed"

\* The tree fields of the next state are those of the tree value t.
SetTree(t) ==
    /\ children' = t.children
    /\ expanded' = t.expanded
    /\ data_is_dir' = t.data_is_dir
    /\ pending' = t.pending
    /\ stale' = t.stale
    /\ loaded' = t.loaded
    /\ Len(t.pending) <= MaxPending

KeepTree == UNCHANGED <<children, expanded, data_is_dir, pending, stale, loaded>>

KeepFs == UNCHANGED <<present, order, fault, extCount>>

\* An exception left a handler: the application stops.
Crash(op) ==
    /\ app' = "crashed"
    /\ last' = Did(op, "none", "none", NoNode)

----------------------------------------------------------------------------
(* Startup. *)

\* The orders in which the filesystem may list the four names.
ListingOrders ==
    { f \in [Names -> Names] : \A x \in Names : \E i \in Names : f[i] = x }

\* The tree before on_mount adds the anchors.
EmptyTree ==
    [children |-> [m \in Containers |-> <<>>], expanded |-> {}, data_is_dir |-> {},
     pending |-> <<>>, stale |-> 0, loaded |-> {}]

\* on_mount: one node per root path, tagged data_is_dir, then loaded.
\* A variant that adds the anchors and leaves their first load to the
\* first expand, as for every other directory node.
RECURSIVE MountFrom_lazy(_, _, _)
MountFrom_lazy(t, pres, i) ==
    IF i > Len(get_root_paths) THEN t
    ELSE MountFrom_lazy([t EXCEPT !.children[Root] = Append(@, get_root_paths[i]),
                                  !.data_is_dir = @ \cup {get_root_paths[i]}],
                        pres, i + 1)

RECURSIVE MountFrom(_, _, _)
MountFrom(t, pres, i) ==
    IF i > Len(get_root_paths) THEN t
    ELSE LET root == get_root_paths[i]
             t1 == [t EXCEPT !.children[Root] = Append(@, root),
                             !.data_is_dir = @ \cup {root}]
         IN  MountFrom(load_children(t1, pres, root).t, pres, i + 1)

on_mount(pres) == MountFrom(EmptyTree, pres, 1)

\* The filesystem the browser starts on under Spec: the two anchors, and
\* bravo/ holding Alpha.txt.  (SpecLoad starts on every filesystem.)
MainPaths == { <<0>>, <<5>>, <<0, 1>>, <<0, 1, 2>> }

\* The listing order under Spec.
MainOrders == { <<4, 3, 2, 1>> }

Init ==
    /\ present = MainPaths
    /\ order \in MainOrders
    /\ fault = NoFault
    /\ cursor = NoNode
    /\ stale = 0
    /\ children = on_mount(present).children
    /\ expanded = {}
    /\ data_is_dir = on_mount(present).data_is_dir
    /\ pending = <<>>
    /\ loaded = on_mount(present).loaded
    /\ dialog = NoNode
    /\ app = "running"
    /\ extCount = 0
    /\ last = Did("on_mount", "none", "none", NoNode)

----------------------------------------------------------------------------
(* The user moves the cursor; the widget drops a detached cursor node. *)

\* A node is on a line of the widget when every node above it, up to the
\* anchor, is expanded.
Visible(n) ==
    /\ n \in Attached(children)
    /\ \A m \in Nodes : (m # Root /\ StrictPrefix(m, n)) => m \in expanded

\* The user puts the cursor on a line of the tree.  The modal dialog takes
\* all input while it is open.
MoveCursor(n) ==
    /\ app = "running" /\ dialog = NoNode
    /\ Visible(n)
    /\ (cursor # n \/ stale # 0)
    /\ cursor' = n
    /\ stale' = 0
    /\ last' = Did("idle", "none", "none", NoNode)
    /\ UNCHANGED <<children, expanded, data_is_dir, pending, loaded, dialog, app>>
    /\ KeepFs

\* The widget rebuilds its lines and finds the detached cursor node's line
\* gone: cursor_node becomes None.
CursorLost ==
    /\ app = "running"
    /\ cursor # NoNode /\ stale > 0
    /\ cursor' = NoNode
    /\ stale' = 0
    /\ last' = Did("idle", "none", "none", NoNode)
    /\ UNCHANGED <<children, expanded, data_is_dir, pending, loaded, dialog, app>>
    /\ KeepFs

----------------------------------------------------------------------------
(* Expand and collapse. *)

\* A variant of on_tree_node_double_clicked that drops the children of the
\* node it collapses.
on_tree_node_double_clicked_drop(n) ==
    /\ app = "running" /\ dialog = NoNode
    /\ n \in Attached(children) /\ n = cursor /\ stale = 0
    /\ IF IsDirNode(data_is_dir, n)
       THEN IF n \in expanded
            THEN SetTree(collapse(remove_children(Tree, n), n))
            ELSE SetTree(expand(Tree, n, 0))
       ELSE KeepTree
    /\ last' = Did("double_clicked", "none", "none", NoNode)
    /\ UNCHANGED <<cursor, dialog, app>>
    /\ KeepFs

\* on_tree_node_double_clicked on node n of the tree; the first click has
\* put the cursor on n.
\* A variant that toggles any node, without the data_is_dir check.
on_tree_node_double_clicked_any(n) ==
    /\ app = "running" /\ dialog = NoNode
    /\ n \in Attached(children) /\ n = cursor /\ stale = 0
    /\ IF n \in expanded
       THEN SetTree(collapse(Tree, n))
       ELSE SetTree(expand(Tree, n, 0))
    /\ last' = Did("double_clicked", "none", "none", NoNode)
    /\ UNCHANGED <<cursor, dialog, app>>
    /\ KeepFs

on_tree_node_double_clicked(n) ==
    /\ app = "running" /\ dialog = NoNode
    /\ n \in Attached(children) /\ n = cursor /\ stale = 0
    /\ IF IsDirNode(data_is_dir, n)
       THEN IF n \in expanded
            THEN SetTree(collapse(Tree, n))
            ELSE SetTree(expand(Tree, n, 0))
       ELSE KeepTree
    /\ last' = Did("double_clicked", "none", "none", NoNode)
    /\ UNCHANGED <<cursor, dialog, app>>
    /\ KeepFs

\* on_tree_node_expanded for the oldest NodeExpanded message.
on_tree_node_expanded ==
    /\ app = "running"
    /\ pending # <<>>
    /\ LET n == Head(pending)
           t == [Tree EXCEPT !.pending = Tail(pending)]
       IN  IF IsDirNode(data_is_dir, n)
           THEN LET r == load_children(t, present, n)
                IN  /\ SetTree(r.t)
                    /\ IF r.exc = "none"
                       THEN /\ app' = app
                            /\ last' = Did("node_expanded", "none", "none", NoNode)
                       ELSE Crash("node_expanded")
           ELSE /\ SetTree(t)
                /\ app' = app
                /\ last' = Did("node_expanded", "none", "none", NoNode)
    /\ UNCHANGED <<cursor, dialog>>
    /\ KeepFs

----------------------------------------------------------------------------
(* Refresh. *)

\* The loop of action_refresh over file_tree.root.children, from the i-th
\* on: each node tagged data_is_dir is loaded; an exception ends the loop.
\* A variant that expands each root node it reloads, as the other two
\* branches of action_refresh do.
RECURSIVE RefreshAll_expanding(_, _)
RefreshAll_expanding(t, i) ==
    IF i > Len(t.children[Root]) THEN [t |-> t, exc |-> "none"]
    ELSE LET root_node == t.children[Root][i]
         IN  RefreshAll_expanding(
                [ load_children(t, present, root_node).t
                    EXCEPT !.expanded = @ \cup {root_node} ], i + 1)

RECURSIVE RefreshAll(_, _)
RefreshAll(t, i) ==
    IF i > Len(t.children[Root]) THEN [t |-> t, exc |-> "none"]
    ELSE LET root_node == t.children[Root][i]
         IN  IF root_node \in t.data_is_dir
             THEN LET r == load_children(t, present, root_node)
                  IN  IF r.exc = "none" THEN RefreshAll(r.t, i + 1) ELSE r
             ELSE RefreshAll(t, i + 1)

\* The staleness of the cursor node's parent object.
ParentDetached == IF stale = 2 THEN 1 ELSE 0

\* hasattr(parent_node, "data_is_dir"): an attached parent carries the tag
\* the tree holds for it; a detached parent was a directory node.
ParentTagged ==
    IF stale = 2 THEN ParentOf(cursor) \in DirPaths
    ELSE ParentOf(cursor) \in data_is_dir

\* action_refresh
action_refresh ==
    /\ app = "running" /\ dialog = NoNode
    /\ IF cursor # NoNode
       THEN IF IsDirNode(IF stale = 0 THEN data_is_dir ELSE DirPaths, cursor)
            THEN LET r == LoadNode(Tree, present, cursor, stale)
                 IN  IF r.exc = "none"
                     THEN /\ SetTree(expand(r.t, cursor, stale))
                          /\ app' = app
                          /\ last' = Did("refresh", "refreshed_dir", "none", NoNode)
                     ELSE SetTree(r.t) /\ Crash("refresh")
            ELSE IF HasParent(cursor) /\ ParentTagged
            THEN LET parent_node == ParentOf(cursor)
                     r == LoadNode(Tree, present, parent_node, ParentDetached)
                 IN  IF r.exc = "none"
                     THEN /\ SetTree(expand(r.t, parent_node, ParentDetached))
                          /\ app' = app
                          /\ last' = Did("refresh", "refreshed_parent", "none", NoNode)
                     ELSE SetTree(r.t) /\ Crash("refresh")
            ELSE /\ KeepTree
                 /\ app' = app
                 /\ last' = Did("refresh", "none", "none", NoNode)
       ELSE LET r == RefreshAll(Tree, 1)
            IN  IF r.exc = "none"
                THEN /\ SetTree(r.t)
                     /\ app' = app
                     /\ last' = Did("refresh", "refreshed_all", "none", NoNode)
                ELSE SetTree(r.t) /\ Crash("refresh")
    /\ UNCHANGED <<cursor, dialog>>
    /\ KeepFs

----------------------------------------------------------------------------
(* Open. *)

\* action_open_selected; launched says whether open_file returned True.
\* A variant that hands the path of any node that has one to open_file,
\* without the is_file() check.
action_open_selected_any(launched) ==
    /\ app = "running" /\ dialog = NoNode
    /\ IF cursor = NoNode
       THEN /\ app' = app
            /\ last' = Did("open", "no_file_selected", "none", NoNode)
       ELSE IF HasData(cursor)
       THEN /\ app' = app
            /\ last' = Did("open", IF launched THEN "opened" ELSE "open_failed",
                           "open_file", cursor)
       ELSE /\ app' = app
            /\ last' = Did("open", "select_a_file", "none", NoNode)
    /\ KeepTree
    /\ UNCHANGED <<cursor, dialog>>
    /\ KeepFs

action_open_selected(launched) ==
    /\ app = "running" /\ dialog = NoNode
    /\ IF cursor = NoNode
       THEN /\ app' = app
            /\ last' = Did("open", "no_file_selected", "none", NoNode)
       ELSE IF HasData(cursor) /\ StatRaises(present, fault, cursor) # "none"
       THEN Crash("open")
       ELSE IF HasData(cursor) /\ IsFile(present, fault, cursor)
       THEN /\ app' = app
            /\ last' = Did("open", IF launched THEN "opened" ELSE "open_failed",
                           "open_file", cursor)
       ELSE /\ app' = app
            /\ last' = Did("open", "select_a_file", "none", NoNode)
    /\ KeepTree
    /\ UNCHANGED <<cursor, dialog>>
    /\ KeepFs

----------------------------------------------------------------------------
(* Delete. *)

\* A variant of action_delete_selected that opens the dialog for any
\* selected node without checking that its path exists.
action_delete_selected_nocheck ==
    /\ app = "running" /\ dialog = NoNode
    /\ IF cursor = NoNode
       THEN /\ dialog' = dialog /\ app' = app
            /\ last' = Did("delete_selected", "nothing_selected", "none", NoNode)
       ELSE /\ dialog' = cursor /\ app' = app
            /\ last' = Did("delete_selected", "none", "none", NoNode)
    /\ KeepTree
    /\ UNCHANGED cursor
    /\ KeepFs

\* action_delete_selected: the check of the selection, then the dialog.
action_delete_selected ==
    /\ app = "running" /\ dialog = NoNode
    /\ IF cursor = NoNode
       THEN /\ dialog' = dialog /\ app' = app
            /\ last' = Did("delete_selected", "nothing_selected", "none", NoNode)
       ELSE IF HasData(cursor) /\ StatRaises(present, fault, cursor) # "none"
       THEN dialog' = dialog /\ Crash("delete_selected")
       ELSE IF ~(HasData(cursor) /\ Exists(present, fault, cursor))
       THEN /\ dialog' = dialog /\ app' = app
            /\ last' = Did("delete_selected", "invalid_selection", "none", NoNode)
       ELSE /\ dialog' = cursor /\ app' = app
            /\ last' = Did("delete_selected", "none", "none", NoNode)
    /\ KeepTree
    /\ UNCHANGED cursor
    /\ KeepFs

\* The filesystem after unlink or rmtree of path ended with res: removed on
\* "ok"; gone already (another process removed it) on "FileNotFoundError";
\* on another error a file is kept, and a directory is kept with or (when
\* partial) without its contents.
AfterDelete(path, res, partial) ==
    CASE res \in {"ok", "FileNotFoundError"} -> present \ Subtree(path)
      [] partial -> present \ (Subtree(path) \ {path})
      [] OTHER -> present

\* The lines of handle_delete_confirm after a delete that raised nothing:
\* the parent is reloaded and expanded, then the success notification.
\* A variant that expands the parent and keeps the children it had.
AfterDeleted_noreload(pres, call, path) ==
    IF HasParent(cursor) /\ ParentTagged
    THEN /\ SetTree(expand(Tree, ParentOf(cursor), ParentDetached))
         /\ last' = Did("delete_confirm", "deleted", call, path)
    ELSE /\ KeepTree
         /\ last' = Did("delete_confirm", "deleted", call, path)

AfterDeleted(pres, call, path) ==
    IF HasParent(cursor) /\ ParentTagged
    THEN LET parent_node == ParentOf(cursor)
             r == LoadNode(Tree, pres, parent_node, ParentDetached)
         IN  IF r.exc = "none"
             THEN /\ SetTree(expand(r.t, parent_node, ParentDetached))
                  /\ last' = Did("delete_confirm", "deleted", call, path)
             ELSE /\ SetTree(r.t)
                  /\ last' = Did("delete_confirm", ExceptNote(r.exc), call, path)
    ELSE /\ KeepTree
         /\ last' = Did("delete_confirm", "deleted", call, path)

\* The try block of handle_delete_confirm for cursor node's path; res is how
\* the unlink or rmtree ends.
\* A variant that goes on to reload and expand the parent although the
\* delete raised.
DeletePath_reload(path, res, partial) ==
    /\ StatRaises(present, fault, path) = "none"
    /\ (partial => IsDir(present, fault, path) /\ res \in {"PermissionError", "OSError"})
    /\ res # "FileNotFoundError"
    /\ present' = (IF Exists(present, fault, path)
                   THEN AfterDelete(path, res, partial) ELSE present)
    /\ UNCHANGED <<order, fault, extCount>>
    /\ IF HasParent(cursor) /\ ParentTagged
       THEN LET r == LoadNode(Tree, present', ParentOf(cursor), ParentDetached)
            IN  SetTree(expand(r.t, ParentOf(cursor), ParentDetached))
       ELSE KeepTree
    /\ last' = Did("delete_confirm", IF res = "ok" THEN "deleted" ELSE ExceptNote(res),
                   IF IsFile(present, fault, path) THEN "unlink" ELSE "rmtree", path)

DeletePath(path, res, partial) ==
    IF StatRaises(present, fault, path) # "none"
    THEN /\ last' = Did("delete_confirm", ExceptNote(StatRaises(present, fault, path)),
                        "none", NoNode)
         /\ KeepTree /\ KeepFs
    ELSE IF IsFile(present, fault, path) \/ IsDir(present, fault, path)
    THEN LET call == IF IsFile(present, fault, path) THEN "unlink" ELSE "rmtree"
         IN  /\ res = "ok" => path \notin Anchors
             /\ (partial => call = "rmtree" /\ res \in {"PermissionError", "OSError"})
             /\ present' = AfterDelete(path, res, partial)
             /\ IF res = "FileNotFoundError"
                THEN extCount < MaxExternal /\ extCount' = extCount + 1
                ELSE extCount' = extCount
             /\ UNCHANGED <<order, fault>>
             /\ IF res = "ok"
                THEN AfterDeleted(present', call, path)
                ELSE /\ KeepTree
                     /\ last' = Did("delete_confirm", ExceptNote(res), call, path)
    ELSE /\ res = "ok" /\ ~partial
         /\ KeepFs
         /\ AfterDeleted(present, "none", NoNode)

\* handle_delete_confirm(confirmed): the dialog was dismissed with the
\* button "delete" (True) or "cancel" (False).
handle_delete_confirm(confirmed, res, partial) ==
    /\ app = "running" /\ dialog # NoNode
    /\ dialog' = NoNode
    /\ UNCHANGED cursor
    /\ IF ~confirmed
       THEN /\ res = "ok" /\ ~partial
            /\ app' = app
            /\ last' = Did("delete_confirm", "delete_cancelled", "none", NoNode)
            /\ KeepTree /\ KeepFs
       ELSE IF cursor = NoNode
       THEN /\ res = "ok" /\ ~partial
            /\ Crash("delete_confirm")
            /\ KeepTree /\ KeepFs
       ELSE IF ~HasData(cursor)
       THEN /\ res = "ok" /\ ~partial
            /\ app' = app
            /\ last' = Did("delete_confirm", "delete_failed", "none", NoNode)
            /\ KeepTree /\ KeepFs
       ELSE /\ app' = app
            /\ DeletePath(cursor, res, partial)

\* A variant of on_button_pressed in which every button confirms.
on_button_pressed_any(button, res, partial) ==
    handle_delete_confirm(TRUE, res, partial)

\* DeleteConfirmScreen.on_button_pressed: "delete" dismisses with True, any
\* other button with False.
on_button_pressed(button, res, partial) ==
    handle_delete_confirm(button = "delete", res, partial)

----------------------------------------------------------------------------
(* Other processes change the filesystem. *)

ExternalRemove(p) ==
    /\ app = "running"
    /\ extCount < MaxExternal
    /\ p \in present /\ p \notin Anchors
    /\ present' = present \ Subtree(p)
    /\ extCount' = extCount + 1
    /\ last' = Did("idle", "none", "none", NoNode)
    /\ UNCHANGED <<order, fault, cursor, dialog, app>>
    /\ KeepTree

ExternalCreate(p) ==
    /\ app = "running"
    /\ extCount < MaxExternal
    /\ p \in MainPaths \ present /\ ParentOf(p) \in present
    /\ present' = present \cup {p}
    /\ extCount' = extCount + 1
    /\ last' = Did("idle", "none", "none", NoNode)
    /\ UNCHANGED <<order, fault, cursor, dialog, app>>
    /\ KeepTree

----------------------------------------------------------------------------

DeleteResults == {"ok", "PermissionError", "FileNotFoundError", "OSError"}

Next ==
    \/ \E n \in Nodes : MoveCursor(n)
    \/ CursorLost
    \/ \E n \in Nodes : on_tree_node_double_clicked(n)
    \/ on_tree_node_expanded
    \/ action_refresh
    \/ \E launched \in BOOLEAN : action_open_selected(launched)
    \/ action_delete_selected
    \/ \E button \in {"cancel", "delete"}, res \in DeleteResults, partial \in BOOLEAN :
          on_button_pressed(button, res, partial)
    \/ \E p \in Paths : ExternalRemove(p)
    \/ \E p \in Paths : ExternalCreate(p)

Spec == Init /\ [][Next]_vars

----------------------------------------------------------------------------
(* Loading and sorting on every filesystem: any set of the entries, listed *)
(* in any order, browsed by moving the cursor to a directory and           *)
(* refreshing it, while no other process changes the filesystem.           *)

\* The filesystems: the anchors exist, and an entry only inside a directory
\* that exists.
Filesystems ==
    { S \in SUBSET Paths :
        /\ Anchors \subseteq S
        /\ \A p \in S : p \in Anchors \/ ParentOf(p) \in S }

InitLoad ==
    /\ present \in Filesystems
    /\ order \in ListingOrders
    /\ fault = NoFault
    /\ cursor = NoNode
    /\ stale = 0
    /\ children = on_mount(present).children
    /\ expanded = {}
    /\ data_is_dir = on_mount(present).data_is_dir
    /\ pending = <<>>
    /\ loaded = on_mount(present).loaded
    /\ dialog = NoNode
    /\ app = "running"
    /\ extCount = 0
    /\ last = Did("on_mount", "none", "none", NoNode)

NextLoad ==
    \/ \E n \in DirPaths : MoveCursor(n)
    \/ on_tree_node_expanded
    \/ action_refresh

SpecLoad == InitLoad /\ [][NextLoad]_vars

----------------------------------------------------------------------------
(* Loading while the filesystem refuses: permissions change and devices    *)
(* fail under the running browser.                                         *)

\* The filesystem under SpecFault: bravo/ holding Alpha.txt, and Alpha.txt
\* and charlie/ beside it.
FaultPaths == { <<0>>, <<5>>, <<0, 1>>, <<0, 2>>, <<0, 3>>, <<0, 1, 2>> }

\* The faults: a stat fault on any entry, a listing fault on a directory, a
\* late stat fault on an entry of a directory.
Faults ==
    { <<k, p>> : k \in {"stat_perm", "stat_io"}, p \in FaultPaths \ {<<5>>} }
    \cup { <<k, p>> : k \in {"list_perm", "list_io"}, p \in {<<0>>, <<0, 1>>} }
    \cup { <<k, p>> : k \in {"entry_perm", "entry_io"}, p \in {<<0, 1>>, <<0, 2>>} }

InitFault ==
    /\ present = FaultPaths
    /\ order \in MainOrders
    /\ fault = NoFault
    /\ cursor = NoNode
    /\ stale = 0
    /\ children = on_mount(present).children
    /\ expanded = {}
    /\ data_is_dir = on_mount(present).data_is_dir
    /\ pending = <<>>
    /\ loaded = on_mount(present).loaded
    /\ dialog = NoNode
    /\ app = "running"
    /\ extCount = 0
    /\ last = Did("on_mount", "none", "none", NoNode)

\* From now on the filesystem answers with fault f.
FaultArises(f) ==
    /\ app = "running"
    /\ extCount < MaxExternal
    /\ fault = NoFault
    /\ fault' = f
    /\ extCount' = extCount + 1
    /\ last' = Did("idle", "none", "none", NoNode)
    /\ UNCHANGED <<present, order, cursor, dialog, app>>
    /\ KeepTree

\* The fault is gone.
FaultClears ==
    /\ app = "running"
    /\ extCount < MaxExternal
    /\ fault # NoFault
    /\ fault' = NoFault
    /\ extCount' = extCount + 1
    /\ last' = Did("idle", "none", "none", NoNode)
    /\ UNCHANGED <<present, order, cursor, dialog, app>>
    /\ KeepTree

NextFault ==
    \/ \E n \in Nodes : MoveCursor(n)
    \/ CursorLost
    \/ \E n \in Nodes : on_tree_node_double_clicked(n)
    \/ on_tree_node_expanded
    \/ action_refresh
    \/ \E f \in Faults : FaultArises(f)
    \/ FaultClears

SpecFault == InitFault /\ [][NextFault]_vars

----------------------------------------------------------------------------
(* Properties of the delete workflow. *)

\* The children a load of directory node p gives on the filesystem pres:
\* the listing, sorted; nothing when p is no directory (any more).
DirectorySnapshot(pres, p) ==
    IF IsDir(pres, fault, p) THEN sorted(pres, fault, iterdir(pres, order, p)) ELSE <<>>

\* This step is handle_delete_confirm(True).
ConfirmedDelete ==
    /\ dialog # NoNode /\ dialog' = NoNode
    /\ last'.op = "delete_confirm" /\ last'.note # "delete_cancelled"

\* This step is handle_delete_confirm(False).
CancelledDelete ==
    /\ dialog # NoNode /\ dialog' = NoNode
    /\ last'.op = "delete_confirm" /\ last'.note = "delete_cancelled"

\* The tree is the same after the step as before it.
TreeUnchanged ==
    /\ children' = children
    /\ expanded' = expanded
    /\ data_is_dir' = data_is_dir
    /\ pending' = pending
    /\ loaded' = loaded
    /\ cursor' = cursor /\ stale' = stale

\* C1: when the path of the focused node existed at the delete request
\* (the dialog shows it) and is gone when the user confirms, the confirmed
\* delete reports not-found or invalid selection, reports no success, makes
\* no filesystem call and changes no node's children or expansion.
C1_VanishedPathFailsExplicitly ==
    [][ (ConfirmedDelete /\ cursor = dialog /\ dialog \notin present)
        => /\ last'.note \in {"not_found", "invalid_selection"}
           /\ last'.call = "none"
           /\ present' = present
           /\ children' = children
           /\ expanded' = expanded ]_vars

\* C2: a confirmed delete of a focused node whose path exists, when it
\* succeeds, has made one delete call on that path (unlink for a file,
\* rmtree for a directory) that removed it, and the node's parent (attached
\* to the tree) holds the reloaded children, is expanded, and has no child
\* for the deleted entry.
C2_ConfirmedDeleteReloadsParent ==
    [][ (/\ ConfirmedDelete
         /\ cursor # NoNode /\ HasData(cursor) /\ Exists(present, fault, cursor)
         /\ stale <= 1
         /\ last'.note = "deleted")
        => /\ last'.call = (IF IsFile(present, fault, cursor) THEN "unlink" ELSE "rmtree")
           /\ last'.arg = cursor
           /\ present' = present \ Subtree(cursor)
           /\ children'[ParentOf(cursor)] = DirectorySnapshot(present', ParentOf(cursor))
           /\ ParentOf(cursor) \in expanded'
           /\ cursor \notin SeqRange(children'[ParentOf(cursor)]) ]_vars

\* C2 witness: a file below bravo/ was unlinked after confirmation; bravo/
\* is expanded and no longer lists it.
C2_Witness ==
    /\ last = Did("delete_confirm", "deleted", "unlink", <<0, 1, 2>>)
    /\ <<0, 1, 2>> \notin present
    /\ <<0, 1>> \in expanded
    /\ children[<<0, 1>>] = <<>>
    /\ children[<<0>>] = << <<0, 1>> >>

\* C3: a confirmed delete whose unlink or rmtree raises PermissionError,
\* FileNotFoundError or another OSError shows an error notification and
\* leaves every node's children, expansion, tag and the cursor as they
\* were; the dialog is closed and nothing is left queued that would delete
\* again.
C3_FailedDeleteLeavesTree ==
    [][ (/\ ConfirmedDelete
         /\ cursor # NoNode /\ HasData(cursor) /\ Exists(present, fault, cursor)
         /\ \E res \in {"PermissionError", "FileNotFoundError", "OSError"},
               partial \in BOOLEAN : on_button_pressed("delete", res, partial))
        => /\ last'.note \in ErrorNotes
           /\ last'.call \in {"unlink", "rmtree"} /\ last'.arg = cursor
           /\ TreeUnchanged
           /\ app' = "running" ]_vars

\* C3 witness: unlink of bravo/Alpha.txt was refused; the file and its node
\* are still there.
C3_Witness ==
    /\ last = Did("delete_confirm", "permission_denied", "unlink", <<0, 1, 2>>)
    /\ <<0, 1, 2>> \in present
    /\ children[<<0, 1>>] = << <<0, 1, 2>> >>
    /\ cursor = <<0, 1, 2>> /\ stale = 0
    /\ dialog = NoNode

\* C4: handle_delete_confirm(False) makes no OS call and changes neither
\* the filesystem nor any node's children, tag or expansion, nor the
\* cursor; the delete request before it changed none of these either.
C4_CancelChangesNothing ==
    [][ /\ (\E res \in DeleteResults, partial \in BOOLEAN :
               on_button_pressed("cancel", res, partial))
            => /\ last'.call = "none"
               /\ last'.note = "delete_cancelled"
               /\ present' = present
               /\ TreeUnchanged
        /\ (dialog = NoNode /\ dialog' # NoNode)
            => /\ last'.call = "none"
               /\ present' = present
               /\ TreeUnchanged ]_vars

\* C4 witness: a delete of bravo/Alpha.txt was requested and cancelled; the
\* file and its node are in place under the expanded bravo/.
C4_Witness ==
    /\ last = Did("delete_confirm", "delete_cancelled", "none", NoNode)
    /\ cursor = <<0, 1, 2>> /\ stale = 0
    /\ <<0, 1, 2>> \in present
    /\ children[<<0, 1>>] = << <<0, 1, 2>> >>
    /\ <<0, 1>> \in expanded

\* C5: unlink or rmtree is called only by handle_delete_confirm(True), and
\* that runs only while the dialog is open; the dialog opens only by a
\* delete request on a focused node that has a path which exists at that
\* moment, and shows that path; a request with no focused node, with a node
\* without a path, or with a path that does not exist gives an
\* invalid-selection notification and opens no dialog.
C5_DeleteOnlyAfterCheckedRequest ==
    [][ /\ (last'.call \in {"unlink", "rmtree"} => ConfirmedDelete)
        /\ (present' # present /\ last'.op # "idle" => ConfirmedDelete)
        /\ (dialog = NoNode /\ dialog' # NoNode)
            => /\ last'.op = "delete_selected"
               /\ cursor # NoNode /\ HasData(cursor)
               /\ Exists(present, fault, cursor)
               /\ dialog' = cursor
        /\ (/\ last'.op = "delete_selected"
            /\ (cursor = NoNode \/ ~HasData(cursor) \/ ~Exists(present, fault, cursor)))
            => /\ dialog' = NoNode
               /\ last'.note \in {"nothing_selected", "invalid_selection"} ]_vars

\* C5 witness: bravo/ was removed by rmtree after a confirmation.
C5_Witness ==
    /\ last = Did("delete_confirm", "deleted", "rmtree", <<0, 1>>)
    /\ <<0, 1>> \notin present
    /\ dialog = NoNode

----------------------------------------------------------------------------
(* Properties of refresh and of expand/collapse. *)

\* Every node that is not n or below n is as it was: its children, its
\* expansion and its tag; n keeps its tag.
OutsideUnchanged(n) ==
    /\ \A m \in Containers : ~IsPrefix(n, m) => children'[m] = children[m]
    /\ \A m \in Nodes : ~IsPrefix(n, m) => ((m \in expanded') <=> (m \in expanded))
    /\ \A m \in Nodes : ~StrictPrefix(n, m) => ((m \in data_is_dir') <=> (m \in data_is_dir))

\* Every node below n is new: collapsed, without children.
DescendantsFresh(n) ==
    /\ \A m \in Containers : StrictPrefix(n, m) => children'[m] = <<>>
    /\ \A m \in Nodes : StrictPrefix(n, m) => m \notin expanded'

\* C6: refresh with the cursor on a directory node of the tree gives that
\* node the children its directory lists now and leaves it expanded;
\* refresh with the cursor on a file node gives the file's parent node the
\* children its directory lists now and leaves the parent expanded; in both
\* cases every node outside the reloaded node's subtree is unchanged.
C6_RefreshFocused ==
    [][ /\ (/\ last'.op = "refresh"
            /\ cursor # NoNode /\ stale = 0 /\ IsDirNode(data_is_dir, cursor))
            => /\ children'[cursor] = DirectorySnapshot(present, cursor)
               /\ cursor \in expanded'
               /\ OutsideUnchanged(cursor)
               /\ DescendantsFresh(cursor)
               /\ last'.note = "refreshed_dir"
        /\ (/\ last'.op = "refresh"
            /\ cursor # NoNode /\ stale <= 1 /\ cursor \in FilePaths)
            => /\ children'[ParentOf(cursor)] = DirectorySnapshot(present, ParentOf(cursor))
               /\ ParentOf(cursor) \in expanded'
               /\ OutsideUnchanged(ParentOf(cursor))
               /\ DescendantsFresh(ParentOf(cursor))
               /\ last'.note = "refreshed_parent" ]_vars

\* C6 witness: with the cursor on Alpha.txt below bravo/, a refresh after
\* the file was removed by another process left bravo/ expanded and empty,
\* the anchor expanded as it was, the other anchor collapsed as it was.
C6_Witness ==
    /\ last = Did("refresh", "refreshed_parent", "none", NoNode)
    /\ cursor = <<0, 1, 2>> /\ stale = 1
    /\ <<0, 1, 2>> \notin present /\ <<0, 1>> \in present
    /\ children[<<0, 1>>] = <<>>
    /\ <<0, 1>> \in expanded /\ <<0>> \in expanded /\ <<5>> \notin expanded
    /\ children[<<0>>] = << <<0, 1>> >>

\* C7: refresh with no focused node gives every anchor node the children
\* its directory lists now, and each anchor node is expanded afterwards
\* exactly if it was before.
C7_RefreshAllKeepsExpansion ==
    [][ (last'.op = "refresh" /\ cursor = NoNode)
        => /\ \A a \in Anchors :
                /\ children'[a] = DirectorySnapshot(present, a)
                /\ (a \in expanded') <=> (a \in expanded)
                /\ DescendantsFresh(a)
           /\ children'[Root] = children[Root]
           /\ last'.note = "refreshed_all" ]_vars

\* C7 witness: a refresh without a cursor node, after bravo/ was removed by
\* another process while one anchor was expanded and the other collapsed.
C7_Witness ==
    /\ last = Did("refresh", "refreshed_all", "none", NoNode)
    /\ cursor = NoNode
    /\ <<0, 1>> \notin present
    /\ children[<<0>>] = <<>>
    /\ <<0>> \in expanded /\ <<5>> \notin expanded

\* C8 as claimed: a double click on a collapsed directory node loads the
\* node's children from the filesystem and then leaves the node expanded.
C8_ToggleLoadsThenExpands ==
    [][ (last'.op = "double_clicked" /\ IsDirNode(data_is_dir, cursor)
            /\ cursor \notin expanded)
        => /\ children'[cursor] = DirectorySnapshot(present, cursor)
           /\ cursor \in expanded' ]_vars

\* C8, amended: a double click on a collapsed directory node expands it and posts
\* the NodeExpanded message, whose handling loads the node's children from
\* the filesystem and leaves it expanded; a double click on an expanded
\* directory node collapses it and keeps every children list; a double
\* click on any other node changes nothing; none of these opens a file.
C8_Toggle ==
    [][ /\ (last'.op = "double_clicked" /\ IsDirNode(data_is_dir, cursor)
                /\ cursor \notin expanded)
            => /\ expanded' = expanded \cup {cursor}
               /\ pending' = Append(pending, cursor)
               /\ children' = children
        /\ (last'.op = "node_expanded" /\ IsDirNode(data_is_dir, Head(pending)))
            => /\ children'[Head(pending)] = DirectorySnapshot(present, Head(pending))
               /\ (Head(pending) \in expanded') <=> (Head(pending) \in expanded)
               /\ OutsideUnchanged(Head(pending))
        /\ (last'.op = "double_clicked" /\ IsDirNode(data_is_dir, cursor)
                /\ cursor \in expanded)
            => /\ expanded' = expanded \ {cursor}
               /\ children' = children
               /\ pending' = pending
        /\ (last'.op = "double_clicked" /\ ~IsDirNode(data_is_dir, cursor))
            => TreeUnchanged
        /\ (last'.op \in {"double_clicked", "node_expanded"})
            => last'.call = "none" /\ present' = present ]_vars

\* C8 witness: bravo/ was expanded and loaded, then collapsed by a double
\* click; its child is still there.
C8_Witness ==
    /\ last = Did("double_clicked", "none", "none", NoNode)
    /\ cursor = <<0, 1>> /\ stale = 0
    /\ <<0, 1>> \notin expanded
    /\ children[<<0, 1>>] = << <<0, 1, 2>> >>
    /\ pending = <<>>

----------------------------------------------------------------------------
(* Properties of load_children. *)

\* Where the filesystem lists name x.
ListedAt(x) == CHOOSE i \in DOMAIN order : order[i] = x

\* The lower-cased name of child node c.
LowerName(c) == lower(NameChars[NameOf(c)])

\* The children s of a node are in order: no file before a directory;
\* among directories and among files no name before a name that is smaller
\* ignoring case; names equal ignoring case as the filesystem listed them.
InSiblingOrder(s) ==
    \A i, j \in DOMAIN s : i < j =>
        /\ s[j] \in data_is_dir => s[i] \in data_is_dir
        /\ ((s[i] \in data_is_dir) <=> (s[j] \in data_is_dir))
            => /\ ~StrLess(LowerName(s[j]), LowerName(s[i]))
               /\ LowerName(s[i]) = LowerName(s[j])
                    => ListedAt(NameOf(s[i])) < ListedAt(NameOf(s[j]))

\* The anchor holds exactly bravo/, Alpha.txt, charlie/ and alpha.txt.
ExampleDirectory == { <<0, 1>>, <<0, 2>>, <<0, 3>>, <<0, 4>> } \subseteq present

\* C9 as claimed: the example directory always loads as
\* [bravo, charlie, Alpha.txt, alpha.txt], whatever the listing order.
C9_ExampleAnyListingOrder ==
    ExampleDirectory
        => children[<<0>>] = << <<0, 1>>, <<0, 3>>, <<0, 2>>, <<0, 4>> >>

\* C9, amended: the children of every loaded directory node list all
\* directories before all files and each group in case-insensitive name
\* order, names that differ only in case in the order the filesystem listed
\* them; the example directory loads as [bravo, charlie, Alpha.txt,
\* alpha.txt] when the filesystem lists Alpha.txt before alpha.txt and as
\* [bravo, charlie, alpha.txt, Alpha.txt] when it lists alpha.txt first.
C9_SiblingOrder ==
    /\ \A n \in DirPaths : InSiblingOrder(children[n])
    /\ \A n \in DirPaths :
          children[n] # <<>> => SeqRange(children[n]) = SeqRange(iterdir(present, order, n))
    /\ ExampleDirectory
          => children[<<0>>] =
                IF ListedAt(2) < ListedAt(4)
                THEN << <<0, 1>>, <<0, 3>>, <<0, 2>>, <<0, 4>> >>
                ELSE << <<0, 1>>, <<0, 3>>, <<0, 4>>, <<0, 2>> >>

\* C9 witness: the example directory, listed as alpha.txt, charlie,
\* Alpha.txt, bravo, was reloaded by a refresh of the anchor.
C9_Witness ==
    /\ ExampleDirectory
    /\ order = <<4, 3, 2, 1>>
    /\ last = Did("refresh", "refreshed_dir", "none", NoNode)
    /\ cursor = <<0>>
    /\ children[<<0>>] = << <<0, 1>>, <<0, 3>>, <<0, 4>>, <<0, 2>> >>

\* C10: when a directory node was loaded by a refresh and is loaded again
\* by the NodeExpanded message of that refresh, with no filesystem change
\* in between, the second load leaves the children list exactly as the
\* first left it; no children list ever holds an entry twice.
C10_LoadTwice ==
    /\ [][ (/\ last = Did("refresh", "refreshed_dir", "none", NoNode)
            /\ pending # <<>> /\ Head(pending) = cursor
            /\ last'.op = "node_expanded")
           => /\ children'[cursor] = children[cursor]
              /\ data_is_dir' = data_is_dir ]_vars
    /\ [](\A n \in Containers : Cardinality(SeqRange(children[n])) = Len(children[n]))

\* C10 witness: the anchor holding all four entries was loaded by a
\* refresh and again by the message; it holds four children.
C10_Witness ==
    /\ last = Did("node_expanded", "none", "none", NoNode)
    /\ cursor = <<0>> /\ stale = 0
    /\ <<0>> \in expanded
    /\ ExampleDirectory
    /\ Len(children[<<0>>]) = 4
    /\ pending = <<>>

----------------------------------------------------------------------------
(* Properties of a load on a filesystem that refuses. *)

\* This step calls load_children on node n of the tree: by a refresh with
\* the cursor on n, or by the NodeExpanded message of n.
LoadsNode(n) ==
    /\ IsDirNode(data_is_dir, n)
    /\ \/ last'.op = "refresh" /\ cursor = n /\ stale = 0
       \/ last'.op = "node_expanded" /\ pending # <<>> /\ Head(pending) = n

\* The entries directory n lists.
EntriesOf(n) == SeqRange(iterdir(present, order, n))

\* A load of n meets PermissionError: at the check that n is a directory,
\* at the listing, or at the sort (the key of an entry).
PermissionAt(n) ==
    \/ fault \in { <<"stat_perm", n>>, <<"list_perm", n>> }
    \/ \E e \in EntriesOf(n) : fault = <<"stat_perm", e>>

\* C11: a load of a directory node that meets a permission error, at the
\* directory check, at the listing or at the sort, leaves the node with
\* exactly one child, the permission placeholder, and no exception leaves
\* load_children (the handler goes on, the application keeps running).
C11_PermissionPlaceholder ==
    [][ \A n \in DirPaths :
          (LoadsNode(n) /\ PermissionAt(n))
          => /\ children'[n] = << n \o <<-1>> >>
             /\ app' = "running" ]_vars

\* C12: a load of a readable directory in which the type check of one
\* entry raises PermissionError leaves the node with every other entry of
\* the directory as a child, in the sort order, and without a placeholder.
C12_EntrySkipped ==
    [][ \A n \in DirPaths : \A e \in EntriesOf(n) :
          (LoadsNode(n) /\ fault \in { <<"stat_perm", e>>, <<"entry_perm", e>> })
          => /\ children'[n] =
                  sorted(present \ Subtree(e), NoFault,
                         iterdir(present \ Subtree(e), order, n))
             /\ app' = "running" ]_vars

\* A load of n meets an error that is no permission error: at the check
\* that n is a directory, at the listing, at the sort or in the loop.
ErrorAt(n) ==
    \/ fault \in { <<"stat_io", n>>, <<"list_io", n>> }
    \/ \E e \in EntriesOf(n) : fault \in { <<"stat_io", e>>, <<"entry_io", e>> }

\* C17: a load of a directory node that meets an unexpected error, at any
\* point of the load, leaves the node with exactly one child, the
\* load-error placeholder, and no entry beside it; no exception leaves
\* load_children.
C17_ErrorPlaceholder ==
    [][ \A n \in DirPaths :
          (LoadsNode(n) /\ ErrorAt(n))
          => /\ children'[n] = << n \o <<-2>> >>
             /\ app' = "running" ]_vars

----------------------------------------------------------------------------
(* Properties of open. *)

\* The cursor node's path is an existing regular file now.
FocusedFile ==
    cursor # NoNode /\ HasData(cursor) /\ IsFile(present, fault, cursor)

\* C13: open_file is called only by action_open_selected and only on the
\* path of the cursor node when that path is an existing regular file now;
\* with the cursor on a directory node, on a placeholder, on a node whose
\* file is gone, or with no cursor node, action_open_selected shows the
\* select-a-file notice and calls nothing; it never changes the tree or
\* the filesystem.
C13_OpenOnlyExistingFile ==
    [][ /\ last'.call = "open_file"
            => last'.op = "open" /\ FocusedFile /\ last'.arg = cursor
        /\ last'.op = "open"
            => /\ TreeUnchanged
               /\ present' = present
               /\ dialog' = dialog
               /\ ~FocusedFile
                    => /\ last'.call = "none"
                       /\ last'.note \in {"select_a_file", "no_file_selected"} ]_vars

\* C13 witness: open was asked for with the cursor on the node of
\* bravo/Alpha.txt after another process removed the file; the notice was
\* shown and the node is still in the tree.
C13_Witness ==
    /\ last = Did("open", "select_a_file", "none", NoNode)
    /\ cursor = <<0, 1, 2>> /\ stale = 0
    /\ <<0, 1, 2>> \notin present
    /\ children[<<0, 1>>] = << <<0, 1, 2>> >>

----------------------------------------------------------------------------
(* Properties of startup and of lazy loading. *)

\* The directory nodes below the anchors.
DeepDirs == DirPaths \ Anchors

\* The state on_mount leaves: one node per anchor in the order of
\* get_root_paths, each collapsed and holding the children its directory
\* lists; nothing deeper is loaded.
StartedUp ==
    /\ children[Root] = get_root_paths
    /\ \A a \in Anchors :
          /\ a \notin expanded
          /\ a \in data_is_dir /\ a \in loaded
          /\ children[a] = DirectorySnapshot(present, a)
    /\ \A n \in DeepDirs : children[n] = <<>> /\ n \notin expanded /\ n \notin loaded

\* C14: after startup there is one top-level node per anchor, collapsed,
\* with its children loaded; the top level stays one node per anchor; a
\* directory node below the anchors has children only if load_children was
\* called on it since it was created, which only the NodeExpanded handler
\* and refresh do first; and a directory node that a step adds to the tree
\* is collapsed and has no children.
C14_EagerAnchorsLazyBelow ==
    /\ [](last.op = "on_mount" => StartedUp)
    /\ [](children[Root] = get_root_paths)
    /\ [](\A n \in DeepDirs : children[n] # <<>> => n \in loaded)
    /\ [][ \A n \in DeepDirs :
             /\ (n \notin loaded /\ n \in loaded')
                   => last'.op \in {"node_expanded", "refresh"}
             /\ (n \notin Attached(children) /\ n \in Attached(children'))
                   => /\ n \notin expanded' /\ children'[n] = <<>>
                      /\ n \notin loaded' ]_vars

\* C14 witness: bravo/ was expanded and its NodeExpanded message handled;
\* only then it holds its child.
C14_Witness ==
    /\ last = Did("node_expanded", "none", "none", NoNode)
    /\ <<0, 1>> \in loaded /\ <<0, 1>> \in expanded
    /\ children[<<0, 1>>] = << <<0, 1, 2>> >>
    /\ children[Root] = get_root_paths

\* The nodes that are no directory nodes: file nodes, placeholders and the
\* widget's root.
Leaves == FilePaths \cup Placeholders \cup {Root}

\* C15: no file node and no placeholder node is ever expanded, tagged as a
\* directory, the target of a load or of a NodeExpanded message; only
\* nodes that were created as directory nodes (the anchors included) are
\* loaded, and only their expansion ever changes, under every sequence of
\* toggle, refresh, open and delete.
C15_LeavesStayLeaves ==
    /\ [](/\ data_is_dir \subseteq DirPaths
          /\ expanded \subseteq data_is_dir
          /\ loaded \subseteq data_is_dir
          /\ SeqRange(pending) \subseteq data_is_dir
          /\ \A n \in Leaves :
                n \notin expanded /\ n \notin loaded /\ n \notin data_is_dir)
    /\ [][ \A n \in Nodes :
             ((n \in expanded') # (n \in expanded) \/ (n \notin loaded /\ n \in loaded'))
             => n \in DirPaths /\ n \in data_is_dir ]_vars

\* C15 witness: the file node of bravo/Alpha.txt was double clicked; it is
\* neither expanded nor loaded, its parent is both.
C15_Witness ==
    /\ last = Did("double_clicked", "none", "none", NoNode)
    /\ cursor = <<0, 1, 2>> /\ stale = 0
    /\ <<0, 1, 2>> \in SeqRange(children[<<0, 1>>])
    /\ <<0, 1, 2>> \notin expanded /\ <<0, 1, 2>> \notin loaded
    /\ <<0, 1>> \in loaded /\ <<0, 1>> \in expanded
    /\ pending = <<>>

----------------------------------------------------------------------------
(* Properties of the refresh target and of the confirmation dialog. *)

\* The step gives node n of the tree the children its directory lists now,
\* as new nodes.
Reloaded(n) ==
    /\ n \in Attached(children)
    /\ children'[n] = DirectorySnapshot(present, n)
    /\ DescendantsFresh(n)

\* C18: whatever has the cursor (nothing, an anchor, a deeper directory
\* node, a file node, a placeholder, the widget's root node), a refresh
\* reloads at least one directory node of the tree and shows one of the
\* three refresh-success notifications.
C18_RefreshAlwaysHasTarget ==
    [][ last'.op = "refresh"
        => /\ last'.note \in {"refreshed_dir", "refreshed_parent", "refreshed_all"}
           /\ \E n \in DirPaths : Reloaded(n) ]_vars

\* C19: a positive confirmation finds the node focused that was focused at
\* the request: cursor_node is a node, its path is the path the request
\* checked and the dialog shows, an unlink or rmtree is made on that path
\* only, and no exception leaves the handler.
C19_ConfirmActsOnRequestedNode ==
    [][ ConfirmedDelete
        => /\ cursor # NoNode
           /\ cursor = dialog
           /\ last'.call \in {"unlink", "rmtree"} => last'.arg = dialog
           /\ app' = "running" ]_vars

\* The browser with a user who answers the dialog: a button of
\* DeleteConfirmScreen is pressed eventually while the dialog is open.
SpecLive ==
    Spec /\ WF_vars(\E button \in {"cancel", "delete"}, res \in DeleteResults,
                       partial \in BOOLEAN : on_button_pressed(button, res, partial))

\* C16: every delete request that opened the dialog is followed by one
\* confirmation outcome, after which the application runs on and takes the
\* next intent; the dialog is closed by handle_delete_confirm only, which
\* runs only for an open dialog; and between the request and its outcome
\* no toggle, refresh, open or delete request is handled.
C16_OneOutcomePerRequest ==
    /\ [](dialog # NoNode => <>(dialog = NoNode /\ app = "running"))
    /\ [][ /\ (dialog # NoNode /\ dialog' = NoNode) <=> last'.op = "delete_confirm"
           /\ dialog # NoNode
                => last'.op \in {"delete_confirm", "node_expanded", "idle"} ]_vars

----------------------------------------------------------------------------
(* Properties of a reload. *)

\* This step calls load_children on node n of the tree: by the NodeExpanded
\* message of n, by a refresh (of the cursor node, of the parent of the
\* cursor node, of every anchor), or for the parent after a delete.
Reloads(n) ==
    /\ n \in Attached(children) /\ n \in data_is_dir
    /\ \/ /\ last'.op = "node_expanded"
          /\ pending # <<>> /\ Head(pending) = n
       \/ /\ last'.op = "refresh"
          /\ \/ cursor = n /\ stale = 0
             \/ /\ cursor # NoNode /\ HasParent(cursor) /\ ParentOf(cursor) = n
                /\ stale <= 1
                /\ ~IsDirNode(IF stale = 0 THEN data_is_dir ELSE DirPaths, cursor)
             \/ cursor = NoNode /\ n \in Anchors
       \/ /\ last'.op = "delete_confirm" /\ last'.note = "deleted"
          /\ cursor # NoNode /\ HasParent(cursor) /\ ParentOf(cursor) = n
          /\ stale <= 1

\* C20: every reload of a directory node, by the NodeExpanded handler, by
\* refresh or after a delete, puts new nodes in place of all its
\* descendants: each directory child of the reloaded node is collapsed,
\* has no children and was never loaded, also when it was expanded with
\* children before and its directory still exists; nothing below the
\* children is left.
C20_ReloadReplacesDescendants ==
    [][ \A n \in DirPaths :
          Reloads(n)
          => /\ DescendantsFresh(n)
             /\ \A c \in SeqRange(children'[n]) :
                   /\ c \notin expanded' /\ c \notin loaded'
                   /\ c \in DirPaths => children'[c] = <<>>
             /\ \A m \in Nodes : StrictPrefix(n, m) => m \notin SeqRange(pending') ]_vars

\* C20 witness: bravo/ was expanded and showed Alpha.txt, with the cursor
\* on that file, when the anchor was reloaded by its NodeExpanded message;
\* bravo/ and the file still exist, the new node of bravo/ is collapsed
\* and empty, and the cursor node's parent is a detached node.
C20_Witness ==
    /\ last = Did("node_expanded", "none", "none", NoNode)
    /\ cursor = <<0, 1, 2>> /\ stale = 2
    /\ <<0, 1>> \in present /\ <<0, 1, 2>> \in present
    /\ children[<<0>>] = << <<0, 1>> >>
    /\ children[<<0, 1>>] = <<>>
    /\ <<0, 1>> \notin expanded /\ <<0, 1>> \notin loaded

====
